---- MODULE Spec2Model ----
(***************************************************************************)
(* Inventory API (src/main.py): the "item" collection of the document      *)
(* store and the request handlers create_item, update_item, adjust_stock,  *)
(* delete_item and inventory_stats.  Every store call of a handler is one  *)
(* atomic step (the store is atomic per single-document operation); the    *)
(* steps of different requests interleave freely under Spec and run one    *)
(* request at a time under SpecSeq.                                        *)
(*                                                                         *)
(* A document carries the fields name, sku, quantity and min_stock.  The   *)
(* remaining fields of the schema (category, location, cost, price) are    *)
(* never read by a handler and travel through the same code paths as name  *)
(* and min_stock.                                                          *)
(***************************************************************************)
EXTENDS Integers, Sequences, FiniteSets, TLC

\* ------------------------------------------------------------------ bounds
MaxOid == 2          \* identifiers the store can assign: 1..MaxOid
NumReqs == 2         \* request slots that can be in flight together
MaxQty == 2          \* largest quantity a create, update or adjust may reach

OIDs == 1..MaxOid
Reqs == 1..NumReqs
Fields == {"name", "sku", "quantity", "min_stock"}
Skus == {"s1", "s2"}

\* Request inputs.  An optional field of a body is None or <<v>>.  Requests
\* served one at a time draw from the wide sets, concurrent ones from the
\* narrow sets.
None == <<>>
CreateBodies ==
    [name : {"n1"}, sku : Skus, quantity : {-1, 0, MaxQty}, min_stock : {1}]
CreateBodiesC ==
    [name : {"n1"}, sku : Skus, quantity : {-1, 0}, min_stock : {1}]
UpdateDatas ==
    [name : {None, <<"n2">>}, sku : {None} \cup {<<s>> : s \in Skus},
     quantity : {None, <<-1>>, <<1>>}, min_stock : {None}]
UpdateDatasC ==
    {d \in [name : {None}, sku : {None} \cup {<<s>> : s \in Skus},
            quantity : {None, <<-1>>, <<MaxQty>>}, min_stock : {None}] :
        d.sku = None \/ d.quantity = None}
Deltas == ((0 - MaxQty)..MaxQty) \ {0}
DeltasC == {0 - MaxQty, 1}

\* Path ids: <<"hex", n>> is the 24-hex-digit string of ObjectId n, anything
\* else is a string bson cannot parse.
PathIds == {<<"hex", n>> : n \in OIDs} \cup {<<"bad", 0>>}

VARIABLES
    item,      \* db.item: identifier -> stored document
    next_oid,  \* the next identifier the store assigns
    pc,        \* per request slot: the store call its handler makes next
    frame,     \* per request slot: the handler's locals
    resp,      \* per request slot: the response sent in the step just taken
    calls,     \* per request slot: store calls made by the current request
    muts       \* per request slot: of those, the writes that changed db.item
vars == <<item, next_oid, pc, frame, resp, calls, muts>>

\* ------------------------------------------------------------ pure helpers
Max(a, b) == IF a >= b THEN a ELSE b

ObjectIdParses_any(item_id) == TRUE
\* bson.ObjectId(item_id): raises on a string that is not 24 hex digits.
ObjectIdParses(item_id) == item_id[1] = "hex"
ObjectId(item_id) == item_id[2]
\* str(oid)
str(oid) == <<"hex", oid>>

\* serialize_doc: the stored fields, with "_id" renamed to "id" and stringified.
serialize_doc(doc) ==
    [f \in (DOMAIN doc \ {"_id"}) \cup {"id"} |->
        IF f = "id" THEN str(doc["_id"]) ELSE doc[f]]

\* db.item.find_one({"_id": oid}): the document with its "_id", or none (<<>>).
find_one_id(coll, oid) ==
    IF oid \in DOMAIN coll
    THEN <<[f \in DOMAIN coll[oid] \cup {"_id"} |->
              IF f = "_id" THEN oid ELSE coll[oid][f]]>>
    ELSE <<>>

find_one_sku_never(coll, sku) == FALSE
\* db.item.find_one({"sku": sku}) is truthy
find_one_sku(coll, sku) == \E o \in DOMAIN coll : coll[o].sku = sku

\* db.item.find_one({"sku": sku, "_id": {"$ne": oid}}) is truthy
find_one_sku_ne(coll, sku, oid) ==
    \E o \in DOMAIN coll : o # oid /\ coll[o].sku = sku

\* ItemUpdate (pydantic): quantity and min_stock, when supplied, are >= 0.
ItemUpdateValid(data) ==
    /\ Len(data.quantity) > 0 => data.quantity[1] >= 0
    /\ Len(data.min_stock) > 0 => data.min_stock[1] >= 0

\* schemas.Item (ItemCreate): the constrained numeric fields are >= 0.
ItemValid(body) == body.quantity >= 0 /\ body.min_stock >= 0

\* data.model_dump(exclude_none=True): only the supplied fields, unwrapped.
model_dump_exclude_none(data) ==
    [f \in {g \in DOMAIN data : Len(data[g]) > 0} |-> data[f][1]]

is_empty_never(payload) == FALSE
\* "if not payload": the dict of supplied fields is empty.
is_empty(payload) == DOMAIN payload = {}

\* A write that replaces the unsupplied fields by empty values.
set_fields_nulling(doc, payload) ==
    [f \in DOMAIN doc \cup DOMAIN payload |->
        IF f \in DOMAIN payload THEN payload[f]
        ELSE IF f \in {"quantity", "min_stock"} THEN 0 ELSE ""]
\* update_one's {"$set": payload} on one document.
set_fields(doc, payload) ==
    [f \in DOMAIN doc \cup DOMAIN payload |->
        IF f \in DOMAIN payload THEN payload[f] ELSE doc[f]]

\* update_many with an empty filter: every document is written.
update_many(coll, oid, payload) ==
    IF oid \in DOMAIN coll
    THEN [o \in DOMAIN coll |-> set_fields(coll[o], payload)]
    ELSE coll
\* db.item.update_one({"_id": oid}, {"$set": payload}): the collection after.
update_one(coll, oid, payload) ==
    IF oid \in DOMAIN coll
    THEN [coll EXCEPT ![oid] = set_fields(coll[oid], payload)]
    ELSE coll

\* result.matched_count of update_one, result.deleted_count of delete_one.
matched_count(coll, oid) == IF oid \in DOMAIN coll THEN 1 ELSE 0

\* db.item.delete_one({"_id": oid}): the collection after.
delete_one(coll, oid) == [o \in DOMAIN coll \ {oid} |-> coll[o]]

\* create_document("item", item): insert under a fresh identifier.
create_document(coll, oid, body) == coll @@ (oid :> body)

new_qty_unclamped(doc, delta) == doc.quantity + delta
\* adjust_stock: new_qty = max(0, int(doc.get("quantity", 0)) + body.delta)
new_qty(doc, delta) == Max(0, doc.quantity + delta)

\* inventory_stats over list(db.item.find()), the documents in identifier order.
RECURSIVE find_all(_, _)
find_all(coll, from) ==
    IF \A o \in DOMAIN coll : o < from THEN <<>>
    ELSE IF from \in DOMAIN coll THEN <<coll[from]>> \o find_all(coll, from + 1)
    ELSE find_all(coll, from + 1)

RECURSIVE total_units(_)
total_units(items) ==
    IF items = <<>> THEN 0 ELSE Head(items).quantity + total_units(Tail(items))

is_low_or_equal(i) == i.min_stock >= i.quantity
\* the low-stock test of inventory_stats
is_low(i) == i.min_stock > i.quantity

RECURSIVE low_stock(_)
low_stock(items) ==
    IF items = <<>> THEN 0
    ELSE (IF is_low(Head(items)) THEN 1 ELSE 0) + low_stock(Tail(items))

stats_of(coll) ==
    LET items == find_all(coll, 1)
    IN  [total_skus |-> Len(items),
         total_units |-> total_units(items),
         low_stock |-> low_stock(items)]

\* ---------------------------------------------------------------- responses
NoResp == [status |-> 0]
HTTPException(code, msg) == [status |-> code, detail |-> msg]
ValidationError == [status |-> 422, detail |-> "validation error"]
\* serialize_doc(None) raises TypeError: the framework answers 500.
ServerError == [status |-> 500, detail |-> "Internal Server Error"]
Ok(code, doc) == [status |-> code, body |-> doc]
IsError(rsp) == rsp.status >= 400

NoFrame == [op |-> "none"]

Init ==
    /\ item = [o \in {} |-> 0]
    /\ next_oid = 1
    /\ pc = [r \in Reqs |-> "ready"]
    /\ frame = [r \in Reqs |-> NoFrame]
    /\ resp = [r \in Reqs |-> NoResp]
    /\ calls = [r \in Reqs |-> 0]
    /\ muts = [r \in Reqs |-> 0]

\* resp[r] is the response request r sent in the step just taken, if any;
\* calls[r] and muts[r] count the store calls of r's current (or just finished)
\* request and those of them that changed the collection.
Sent(r, rsp) == [q \in Reqs |-> IF q = r THEN rsp ELSE NoResp]
Count(cnt, r, n) ==
    [q \in Reqs |-> IF q = r THEN n ELSE IF pc[q] = "ready" THEN 0 ELSE cnt[q]]

\* The handler of request r returns (or raises) rsp after c store calls, n of
\* them effective writes.
Finish(r, rsp, c, n) ==
    /\ pc' = [pc EXCEPT ![r] = "ready"]
    /\ frame' = [frame EXCEPT ![r] = NoFrame]
    /\ resp' = Sent(r, rsp)
    /\ calls' = Count(calls, r, c)
    /\ muts' = Count(muts, r, n)

\* The handler of request r moves on to its next store call.
Goto(r, label, fr, c, n) ==
    /\ pc' = [pc EXCEPT ![r] = label]
    /\ frame' = [frame EXCEPT ![r] = fr]
    /\ resp' = Sent(r, NoResp)
    /\ calls' = Count(calls, r, c)
    /\ muts' = Count(muts, r, n)

\* Re-fetch by id and serialize: the tail of create, update and adjust.
refetch(r, oid, code) ==
    LET doc == find_one_id(item, oid)
    IN  /\ Finish(r, IF doc = <<>> THEN ServerError
                     ELSE Ok(code, serialize_doc(doc[1])),
                  calls[r] + 1, muts[r])
        /\ UNCHANGED <<item, next_oid>>

\* ------------------------------------------------------------- create_item
\* The store still has an identifier for every insert in flight and one more.
IdsLeft == next_oid + Cardinality({q \in Reqs : pc[q] = "create_insert"}) <= MaxOid

create_item_check(r, body) ==
    /\ pc[r] = "ready"
    /\ UNCHANGED <<item, next_oid>>
    /\ IF ~ItemValid(body) THEN Finish(r, ValidationError, 0, 0)
       ELSE IF find_one_sku(item, body.sku)
            THEN Finish(r, HTTPException(400, "SKU already exists"), 1, 0)
            ELSE /\ IdsLeft
                 /\ Goto(r, "create_insert", [op |-> "create", item |-> body], 1, 0)

create_item_insert(r) ==
    /\ pc[r] = "create_insert"
    /\ item' = create_document(item, next_oid, frame[r].item)
    /\ next_oid' = next_oid + 1
    /\ Goto(r, "create_fetch",
            [op |-> "create", inserted_id |-> str(next_oid)],
            calls[r] + 1, muts[r] + 1)

create_item_fetch(r) ==
    /\ pc[r] = "create_fetch"
    /\ refetch(r, ObjectId(frame[r].inserted_id), 201)

\* ------------------------------------------------------------- update_item
update_item_begin(r, item_id, data) ==
    /\ pc[r] = "ready"
    /\ UNCHANGED <<item, next_oid>>
    /\ IF ~ItemUpdateValid(data) THEN Finish(r, ValidationError, 0, 0)
       ELSE IF ~ObjectIdParses(item_id)
            THEN Finish(r, HTTPException(400, "Invalid item id"), 0, 0)
       ELSE LET oid == ObjectId(item_id)
                payload == model_dump_exclude_none(data)
                c == IF "sku" \in DOMAIN payload THEN 1 ELSE 0
            IN  IF is_empty(payload)
                THEN Finish(r, HTTPException(400, "No fields to update"), 0, 0)
                ELSE IF "sku" \in DOMAIN payload
                        /\ find_one_sku_ne(item, payload["sku"], oid)
                THEN Finish(r, HTTPException(400, "SKU already in use by another item"),
                            c, 0)
                ELSE Goto(r, "update_write",
                          [op |-> "update", oid |-> oid, payload |-> payload], c, 0)

update_item_write(r) ==
    /\ pc[r] = "update_write"
    /\ item' = update_one(item, frame[r].oid, frame[r].payload)
    /\ UNCHANGED next_oid
    /\ IF matched_count(item, frame[r].oid) = 0
       THEN Finish(r, HTTPException(404, "Item not found"), calls[r] + 1, muts[r])
       ELSE Goto(r, "update_fetch", frame[r], calls[r] + 1, muts[r] + 1)

update_item_fetch(r) ==
    /\ pc[r] = "update_fetch"
    /\ refetch(r, frame[r].oid, 200)

\* ------------------------------------------------------------ adjust_stock
\* History kept with an adjust request's locals: the other requests that, when
\* this one read the document, had read the same document at the same quantity
\* and not yet written it.
Peers(oid, doc) ==
    {q \in Reqs : /\ pc[q] = "adjust_write"
                  /\ frame[q].oid = oid
                  /\ frame[q].doc.quantity = doc.quantity}

adjust_stock_find(r, item_id, delta) ==
    /\ pc[r] = "ready"
    /\ UNCHANGED <<item, next_oid>>
    /\ IF ~ObjectIdParses(item_id)
       THEN Finish(r, HTTPException(400, "Invalid item id"), 0, 0)
       ELSE LET oid == ObjectId(item_id)
                doc == find_one_id(item, oid)
            IN  IF doc = <<>>
                THEN Finish(r, HTTPException(404, "Item not found"), 1, 0)
                ELSE /\ doc[1].quantity + delta <= MaxQty
                     /\ Goto(r, "adjust_write",
                             [op |-> "adjust", oid |-> oid, delta |-> delta,
                              doc |-> doc[1], peers |-> Peers(oid, doc[1])], 1, 0)

adjust_stock_write(r) ==
    /\ pc[r] = "adjust_write"
    /\ item' = update_one(item, frame[r].oid,
                          [quantity |-> new_qty(frame[r].doc, frame[r].delta)])
    /\ UNCHANGED next_oid
    /\ Goto(r, "adjust_fetch", frame[r],
            calls[r] + 1, muts[r] + matched_count(item, frame[r].oid))

adjust_stock_fetch(r) ==
    /\ pc[r] = "adjust_fetch"
    /\ refetch(r, frame[r].oid, 200)

\* ------------------------------------------------------------- delete_item
delete_item(r, item_id) ==
    /\ pc[r] = "ready"
    /\ UNCHANGED next_oid
    /\ IF ~ObjectIdParses(item_id)
       THEN /\ Finish(r, HTTPException(400, "Invalid item id"), 0, 0)
            /\ UNCHANGED item
       ELSE LET oid == ObjectId(item_id)
            IN  /\ item' = delete_one(item, oid)
                /\ IF matched_count(item, oid) = 0
                   THEN Finish(r, HTTPException(404, "Item not found"), 1, 0)
                   ELSE Finish(r, Ok(204, [ok |-> TRUE]), 1, 1)

\* --------------------------------------------------------- inventory_stats
inventory_stats(r) ==
    /\ pc[r] = "ready"
    /\ Finish(r, Ok(200, stats_of(item)), 1, 0)
    /\ UNCHANGED <<item, next_oid>>

\* ---------------------------------------------------------- specifications
create_item(r, Bodies) ==
    \/ \E body \in Bodies : create_item_check(r, body)
    \/ create_item_insert(r)
    \/ create_item_fetch(r)

update_item(r, Datas) ==
    \/ \E item_id \in PathIds, data \in Datas : update_item_begin(r, item_id, data)
    \/ update_item_write(r)
    \/ update_item_fetch(r)

adjust_stock(r, Ds) ==
    \/ \E item_id \in PathIds, delta \in Ds : adjust_stock_find(r, item_id, delta)
    \/ adjust_stock_write(r)
    \/ adjust_stock_fetch(r)

delete_item_any(r) == \E item_id \in PathIds : delete_item(r, item_id)

\* Slot r serves requests drawn from the given inputs.
Serve(r, Bodies, Datas, Ds) ==
    \/ create_item(r, Bodies)
    \/ update_item(r, Datas)
    \/ adjust_stock(r, Ds)
    \/ delete_item_any(r)
    \/ inventory_stats(r)

\* Requests served concurrently: the store calls of different requests interleave.
Next == \E r \in Reqs : Serve(r, CreateBodiesC, UpdateDatasC, DeltasC)
Spec == Init /\ [][Next]_vars

\* Requests served one after the other, by a single worker: a request starts
\* only when the one before it has been answered.
Worker == CHOOSE r \in Reqs : \A q \in Reqs : r <= q
NextSeq == Serve(Worker, CreateBodies, UpdateDatas, Deltas)
SpecSeq == Init /\ [][NextSeq]_vars

TypeOK ==
    /\ DOMAIN item \subseteq OIDs
    /\ next_oid \in 1..(MaxOid + 1)
    /\ \A r \in Reqs : muts[r] \in 0..1 /\ calls[r] \in 0..3 /\ muts[r] <= calls[r]

\* ------------------------------------------------------------------ claims
WellFormed(item_id) == item_id[1] = "hex"
SkuCount(coll, sku) == Cardinality({o \in DOMAIN coll : coll[o].sku = sku})
\* The current step starts a request in slot r: r was ready and now has sent a
\* response or is in flight.
Starts(r) == pc[r] = "ready" /\ (pc'[r] # "ready" \/ resp'[r] # NoResp)
\* The current step takes request r from before to after.
Moves(r, before, after) == pc[r] = before /\ pc'[r] = after

\* C1: no two distinct item documents have the same sku, in every reachable
\* state, under any interleaving of the requests' store calls.
C1_SkuUnique ==
    \A o1 \in DOMAIN item, o2 \in DOMAIN item :
        o1 # o2 => item[o1].sku # item[o2].sku

\* C2: every stored quantity is >= 0 in every reachable state, under any
\* interleaving; an adjustment whose sum is below zero stores 0.
C2_QuantityNeverNegative ==
    [][/\ \A o \in DOMAIN item' : item'[o].quantity >= 0
       /\ \A r \in Reqs :
            (/\ Moves(r, "adjust_write", "adjust_fetch")
             /\ frame[r].oid \in DOMAIN item
             /\ frame[r].doc.quantity + frame[r].delta < 0)
            => item'[frame[r].oid].quantity = 0]_vars

\* An adjust request has just stored 0 for a sum below zero.
C2_Witness ==
    \E r \in Reqs :
        /\ pc[r] = "adjust_fetch"
        /\ muts[r] = 1
        /\ frame[r].doc.quantity + frame[r].delta < 0
        /\ frame[r].oid \in DOMAIN item
        /\ item[frame[r].oid].quantity = 0

\* C3: with requests served one after the other, a create request whose sku
\* is already stored answers 400 "SKU already exists", inserts nothing, and
\* the store holds exactly one item with that sku.
C3_DuplicateCreateRejected ==
    [][\A r \in Reqs, body \in CreateBodies :
        (/\ Starts(r)
         /\ body.quantity >= 0 /\ body.min_stock >= 0
         /\ SkuCount(item, body.sku) > 0
         /\ create_item_check(r, body))
        => /\ resp'[r] = [status |-> 400, detail |-> "SKU already exists"]
           /\ pc'[r] = "ready"
           /\ item' = item
           /\ next_oid' = next_oid
           /\ muts'[r] = 0
           /\ SkuCount(item', body.sku) = 1]_vars

\* A create request has just been rejected as a duplicate.
C3_Witness ==
    \E r \in Reqs :
        /\ resp[r] = [status |-> 400, detail |-> "SKU already exists"]
        /\ \E sku \in Skus : SkuCount(item, sku) = 1

AllNone == [name |-> None, sku |-> None, quantity |-> None, min_stock |-> None]

\* C4: an update request with a well-formed id and a body supplying no field
\* answers 400 "No fields to update" and leaves the whole store unchanged,
\* whether or not the id exists.
C4_EmptyUpdateRejected ==
    [][\A r \in Reqs, item_id \in PathIds :
        (/\ Starts(r)
         /\ WellFormed(item_id)
         /\ update_item_begin(r, item_id, AllNone))
        => /\ resp'[r] = [status |-> 400, detail |-> "No fields to update"]
           /\ pc'[r] = "ready"
           /\ item' = item
           /\ calls'[r] = 0]_vars

\* An empty update has just been rejected while the store holds an item.
C4_Witness ==
    \E r \in Reqs :
        /\ resp[r] = [status |-> 400, detail |-> "No fields to update"]
        /\ DOMAIN item # {}

Supplied(data) == {f \in Fields : data[f] # None}

\* C5: with requests served one after the other, a successful update of item
\* X sets exactly the supplied fields to the supplied values and leaves X's
\* other fields, X's id and every other document unchanged; the response is
\* the stored document.
C5_UpdateFrame ==
    [][\A r \in Reqs :
        /\ Moves(r, "ready", "update_write") =>
             \A item_id \in PathIds, data \in UpdateDatas :
                update_item_begin(r, item_id, data) =>
                    /\ frame'[r].oid = item_id[2]
                    /\ DOMAIN frame'[r].payload = Supplied(data)
                    /\ \A f \in Supplied(data) : frame'[r].payload[f] = data[f][1]
        /\ Moves(r, "update_write", "update_fetch") =>
             LET oid == frame[r].oid
                 payload == frame[r].payload
             IN  /\ DOMAIN item' = DOMAIN item
                 /\ \A o \in DOMAIN item \ {oid} : item'[o] = item[o]
                 /\ DOMAIN item'[oid] = Fields
                 /\ \A f \in Fields :
                        item'[oid][f] =
                            IF f \in DOMAIN payload THEN payload[f] ELSE item[oid][f]
        /\ Moves(r, "update_fetch", "ready") =>
             /\ item' = item
             /\ resp'[r].status = 200
             /\ resp'[r].body.id = <<"hex", frame[r].oid>>
             /\ \A f \in Fields : resp'[r].body[f] = item[frame[r].oid][f]]_vars

\* An update that supplied only a new name has been written: the name is the
\* supplied one and the item still carries a sku, a quantity and a min_stock.
C5_Witness ==
    \E r \in Reqs :
        /\ pc[r] = "update_fetch"
        /\ DOMAIN frame[r].payload = {"name"}
        /\ item[frame[r].oid].name = "n2"
        /\ item[frame[r].oid].sku \in Skus
        /\ item[frame[r].oid].quantity + item[frame[r].oid].min_stock > 0

\* C6: update, adjust and delete with a malformed id never answer 404 and make
\* no store call, and answer 400 "Invalid item id" whenever the handler is
\* entered (the body passed validation); delete and adjust with a well-formed
\* id that matches no document answer 404 and leave the store unchanged;
\* delete with an existing id removes exactly that document.
C6_PathIdErrors ==
    [][\A r \in Reqs, item_id \in PathIds :
        Starts(r) =>
          /\ (/\ ~WellFormed(item_id)
              /\ \/ delete_item(r, item_id)
                 \/ \E delta \in Deltas : adjust_stock_find(r, item_id, delta)
                 \/ \E data \in UpdateDatas :
                        /\ \A f \in {"quantity", "min_stock"} :
                               data[f] # None => data[f][1] >= 0
                        /\ update_item_begin(r, item_id, data))
             => /\ resp'[r] = [status |-> 400, detail |-> "Invalid item id"]
                /\ pc'[r] = "ready"
                /\ calls'[r] = 0
                /\ item' = item
          /\ (/\ ~WellFormed(item_id)
              /\ \E data \in UpdateDatas : update_item_begin(r, item_id, data))
             => /\ resp'[r].status \in {400, 422}
                /\ pc'[r] = "ready"
                /\ calls'[r] = 0
                /\ item' = item
          /\ (/\ WellFormed(item_id)
              /\ item_id[2] \notin DOMAIN item
              /\ \/ delete_item(r, item_id)
                 \/ \E delta \in Deltas : adjust_stock_find(r, item_id, delta))
             => /\ resp'[r] = [status |-> 404, detail |-> "Item not found"]
                /\ pc'[r] = "ready"
                /\ item' = item
          /\ (/\ WellFormed(item_id)
              /\ item_id[2] \in DOMAIN item
              /\ delete_item(r, item_id))
             => /\ resp'[r].status = 204
                /\ DOMAIN item' = DOMAIN item \ {item_id[2]}
                /\ \A o \in DOMAIN item' : item'[o] = item[o]]_vars

\* A request with a malformed id has just been refused while the store holds
\* an item.
C6_Witness ==
    \E r \in Reqs :
        /\ resp[r] = [status |-> 400, detail |-> "Invalid item id"]
        /\ calls[r] = 0
        /\ DOMAIN item # {}

\* C7: with requests served one after the other, an adjust request with
\* delta d on an existing item with quantity q stores and returns
\* max(0, q + d), changing no other field and no other document.
C7_AdjustSequential ==
    [][\A r \in Reqs :
        /\ Moves(r, "ready", "adjust_write") =>
             /\ frame'[r].oid \in DOMAIN item
             /\ frame'[r].doc.quantity = item[frame'[r].oid].quantity
        /\ Moves(r, "adjust_write", "adjust_fetch") =>
             LET oid == frame[r].oid
                 q == item[oid].quantity
                 d == frame[r].delta
             IN  /\ DOMAIN item' = DOMAIN item
                 /\ \A o \in DOMAIN item \ {oid} : item'[o] = item[o]
                 /\ item'[oid].quantity = (IF q + d < 0 THEN 0 ELSE q + d)
                 /\ \A f \in Fields \ {"quantity"} : item'[oid][f] = item[oid][f]
        /\ Moves(r, "adjust_fetch", "ready") =>
             LET oid == frame[r].oid
                 q == frame[r].doc.quantity
                 d == frame[r].delta
             IN  /\ item' = item
                 /\ resp'[r].status = 200
                 /\ resp'[r].body.id = <<"hex", oid>>
                 /\ resp'[r].body.quantity = (IF q + d < 0 THEN 0 ELSE q + d)
                 /\ \A f \in Fields : resp'[r].body[f] = item[oid][f]]_vars

\* The spec's example scaled down: quantity 1, delta -2 has stored 0.
C7_Witness ==
    \E r \in Reqs :
        /\ pc[r] = "adjust_fetch"
        /\ frame[r].doc.quantity = 1
        /\ frame[r].delta = -2
        /\ item[frame[r].oid].quantity = 0

RECURSIVE UnitsUpTo(_, _)
\* The sum of the quantities, counted by value: q times the items holding q.
UnitsUpTo(coll, q) ==
    IF q = 0 THEN 0
    ELSE q * Cardinality({o \in DOMAIN coll : coll[o].quantity = q})
         + UnitsUpTo(coll, q - 1)

\* C8: stats returns total_skus = number of items, total_units = sum of the
\* quantities and low_stock = number of items with min_stock > quantity
\* (strictly), all 0 on an empty collection, and does not modify the store.
C8_Stats ==
    [][\A r \in Reqs :
        (Starts(r) /\ inventory_stats(r)) =>
            /\ item' = item
            /\ resp'[r].status = 200
            /\ resp'[r].body.total_skus = Cardinality(DOMAIN item)
            /\ resp'[r].body.total_units = UnitsUpTo(item, MaxQty)
            /\ resp'[r].body.low_stock =
                 Cardinality({o \in DOMAIN item :
                                item[o].min_stock > item[o].quantity})
            /\ DOMAIN item = {} =>
                 resp'[r].body = [total_skus |-> 0, total_units |-> 0, low_stock |-> 0]]_vars

\* Stats has just answered for two items, one below its threshold and one
\* exactly at it.
C8_Witness ==
    \E r \in Reqs :
        /\ resp[r].status = 200
        /\ DOMAIN resp[r].body = {"total_skus", "total_units", "low_stock"}
        /\ resp[r].body.total_skus = 2
        /\ resp[r].body.low_stock = 1
        /\ resp[r].body.total_units > 0
        /\ \E o \in DOMAIN item : item[o].min_stock = item[o].quantity

\* C9: a request that ended in an error response has made no write that
\* changed the store, and no request makes more than one such write.
C9_NoPartialMutation ==
    \A r \in Reqs :
        /\ muts[r] <= 1
        /\ (pc[r] = "ready" /\ IsError(resp[r])) => muts[r] = 0

\* C10: two adjust requests on the same existing item that both read quantity
\* q before either wrote and have both written, with no clamping involved and
\* no other writer, leave q + d1 + d2.
C10_NoLostAdjustment ==
    \A r1 \in Reqs, r2 \in Reqs :
        (/\ r1 # r2
         /\ pc[r1] = "adjust_fetch" /\ pc[r2] = "adjust_fetch"
         /\ r1 \in frame[r2].peers
         /\ muts[r1] = 1 /\ muts[r2] = 1
         /\ frame[r1].oid = frame[r2].oid
         /\ frame[r1].oid \in DOMAIN item
         /\ frame[r1].doc.quantity = frame[r2].doc.quantity
         /\ frame[r1].doc.quantity + frame[r1].delta >= 0
         /\ frame[r1].doc.quantity + frame[r2].delta >= 0
         /\ frame[r1].doc.quantity + frame[r1].delta + frame[r2].delta >= 0)
        => item[frame[r1].oid].quantity =
               frame[r1].doc.quantity + frame[r1].delta + frame[r2].delta

====
